---- MODULE Spec2Model ----
(***************************************************************************)
(* Static call graph analyzer (myast.py): the graph store, the identifier  *)
(* scheme, the name resolver, the syntax-tree walker and the project       *)
(* scaffolder of build_graph.                                              *)
(*                                                                         *)
(* Encoding.                                                               *)
(*  - A dotted name "x.y.z" is the sequence of its segments <<"x","y","z">>*)
(*    (identifiers hold no dot, so string equality is sequence equality).  *)
(*    The absent name (Python None) is the empty sequence.                 *)
(*  - A node id is a sequence of components [k, n]: "file:pkg/a.py" is     *)
(*    <<[k |-> "file", n |-> <<"pkg","a.py">>]>>, and an id made by        *)
(*    _make_id, parent + "::" + kind + ":" + name, is the parent's         *)
(*    sequence with the component [k |-> kind, n |-> <<name>>] appended.   *)
(*  - A syntax tree is the sequence of its nodes in document order; each   *)
(*    node names its parent (0 is the Module), so children of a node are   *)
(*    the later nodes that name it, in order.  Each node fills one source  *)
(*    line: lineno is its index, end_lineno the index of its last          *)
(*    descendant.                                                          *)
(***************************************************************************)
EXTENDS Integers, Sequences, FiniteSets, TLC

None == <<>>

Last(s) == s[Len(s)]
Front(s) == SubSeq(s, 1, Len(s) - 1)

RECURSIVE SumSeq(_)
SumSeq(s) == IF s = <<>> THEN 0 ELSE s[1] + SumSeq(Tail(s))

RECURSIVE Concat(_)
Concat(ss) == IF ss = <<>> THEN <<>> ELSE ss[1] \o Concat(Tail(ss))

(***************************************************************************)
(* Identifier scheme                                                       *)
(***************************************************************************)
FileId(rel) == << [k |-> "file", n |-> rel] >>

DirId(parts) == << [k |-> "dir", n |-> parts] >>

ExternalId(kind, dotted) == << [k |-> kind, n |-> dotted] >>

MakeId(parent, kind, name) == parent \o << [k |-> kind, n |-> <<name>>] >>

\* str.startswith on ids.  Files are walked in sorted order, and a path that
\* is a string prefix of another sorts before it, so while a file is walked no
\* node of a file whose path merely extends its path as a string exists yet:
\* on the ids the walker compares, the string prefix is the component prefix.
StartsWith(nid, prefix) ==
    /\ Len(prefix) <= Len(nid)
    /\ SubSeq(nid, 1, Len(prefix)) = prefix

(***************************************************************************)
(* Graph store                                                             *)
(***************************************************************************)
Node(id, kind, label, party, loc) ==
    [id |-> id, kind |-> kind, label |-> label, party |-> party, loc |-> loc]

Edge(src, dst, kind) == [src |-> src, dst |-> dst, kind |-> kind]

NodeIds(ns) == { ns[i].id : i \in 1..Len(ns) }

\* Mutant: re-adding an id overwrites the node (last writer wins).
add_node_overwrite(ns, id, kind, label, party, loc) ==
    IF id \notin NodeIds(ns)
    THEN Append(ns, Node(id, kind, label, party, loc))
    ELSE [i \in 1..Len(ns) |->
            IF ns[i].id = id THEN Node(id, kind, label, party, loc) ELSE ns[i]]

add_node(ns, id, kind, label, party, loc) ==
    IF id \notin NodeIds(ns)
    THEN Append(ns, Node(id, kind, label, party, loc))
    ELSE ns

add_edge(es, src, dst, kind) == Append(es, Edge(src, dst, kind))

(***************************************************************************)
(* Name resolver                                                           *)
(***************************************************************************)
\* An expression is [head, id, attrs]: the Name `id` (head "Name") or some
\* other expression (head "Other"), followed by a chain of attribute accesses.
RECURSIVE _resolve_name(_)
_resolve_name(e) ==
    IF e.attrs = <<>>
    THEN IF e.head = "Name" THEN <<e.id>> ELSE None
    ELSE LET val == _resolve_name([e EXCEPT !.attrs = Front(e.attrs)])
         IN  IF val # None THEN Append(val, Last(e.attrs))
             ELSE <<Last(e.attrs)>>

IsDef(n) == n.kind \in {"function", "class"}

\* Indices of ns, in insertion order, that satisfy P.
Matches(ns, P(_)) == SelectSeq([i \in 1..Len(ns) |-> i], LAMBDA i : P(ns[i]))

\* Mutant: only nodes of the current file are candidates.
_resolve_target_same_file_only(ns, file_id, name) ==
    LET short_name == IF Len(name) > 1 THEN <<Last(name)>> ELSE name
        same_file == Matches(ns, LAMBDA n : /\ n.label = short_name /\ IsDef(n)
                                            /\ StartsWith(n.id, file_id))
        placeholder_id == ExternalId("function", name)
    IN  IF same_file # <<>> THEN [target |-> ns[same_file[1]].id, nodes |-> ns]
        ELSE [target |-> placeholder_id,
              nodes |-> add_node(ns, placeholder_id, "function", short_name, "3rd", 0)]

\* _resolve_target: the target id and the store after the call.
_resolve_target(ns, file_id, name) ==
    LET short_name == IF Len(name) > 1 THEN <<Last(name)>> ELSE name
        exact == Matches(ns, LAMBDA n : n.label = name /\ IsDef(n))
        same_file == Matches(ns, LAMBDA n : /\ n.label = short_name /\ IsDef(n)
                                            /\ StartsWith(n.id, file_id))
        other == Matches(ns, LAMBDA n : /\ n.label = short_name /\ IsDef(n)
                                        /\ ~StartsWith(n.id, file_id))
        placeholder_id == ExternalId("function", name)
    IN  IF exact # <<>> THEN [target |-> ns[exact[1]].id, nodes |-> ns]
        ELSE IF same_file # <<>> THEN [target |-> ns[same_file[1]].id, nodes |-> ns]
        ELSE IF other # <<>> THEN [target |-> ns[other[1]].id, nodes |-> ns]
        ELSE [target |-> placeholder_id,
              nodes |-> add_node(ns, placeholder_id, "function", short_name, "3rd", 0)]

(***************************************************************************)
(* Syntax trees (the parser's output, read through the ast module)         *)
(***************************************************************************)
Name(id) == [head |-> "Name", id |-> id, attrs |-> <<>>]

Attribute(value, attr) == [value EXCEPT !.attrs = Append(@, attr)]

OtherExpr == [head |-> "Other", id |-> "", attrs |-> <<>>]

\* A syntax node without its place in the tree: kind, the definition's name, the
\* class's base expressions, the call's callee expression, the modules of an
\* import (for a "from" import: its one module, or none when it has no module).
TreeNode(kind, name, bases, func, names) ==
    [kind |-> kind, name |-> name, bases |-> bases, func |-> func, names |-> names]

\* The syntax node placed under the node of index parent (0: the Module).
At(n, parent) ==
    [kind |-> n.kind, name |-> n.name, bases |-> n.bases, func |-> n.func,
     names |-> n.names, parent |-> parent]

FunctionDef(name) == TreeNode("FunctionDef", name, <<>>, OtherExpr, <<>>)

ClassDef(name, bases) == TreeNode("ClassDef", name, bases, OtherExpr, <<>>)

Call(func) == TreeNode("Call", "", <<>>, func, <<>>)

Import(names) == TreeNode("Import", "", <<>>, OtherExpr, names)

ImportFrom(module) ==
    TreeNode("ImportFrom", "", <<>>, OtherExpr, IF module = None THEN <<>> ELSE <<module>>)

Stmt == TreeNode("Stmt", "", <<>>, OtherExpr, <<>>)

\* ast.iter_child_nodes: the children of node i (0: the Module), in order.
iter_child_nodes(t, i) ==
    SelectSeq([j \in 1..Len(t) |-> j], LAMBDA j : t[j].parent = i)

RECURSIVE IsUnder(_, _, _)
IsUnder(t, j, i) ==
    IF j = 0 THEN FALSE
    ELSE IF t[j].parent = i THEN TRUE
    ELSE IsUnder(t, t[j].parent, i)

lineno(t, i) == i

end_lineno(t, i) ==
    LET under == { j \in 1..Len(t) : IsUnder(t, j, i) }
    IN  IF under = {} THEN i ELSE CHOOSE j \in under : \A k \in under : k <= j

\* (node.end_lineno or node.lineno) - node.lineno + 1
DefLoc(t, i) ==
    (IF end_lineno(t, i) # 0 THEN end_lineno(t, i) ELSE lineno(t, i)) - lineno(t, i) + 1

\* source.count("\n") + (1 if the last line has no newline): one line per node.
FileLoc(t) == Len(t)

IsDefKind(kind) == kind \in {"FunctionDef", "ClassDef"}

(***************************************************************************)
(* The walk of one tree, as the sequence of the visitor's steps            *)
(***************************************************************************)
Step(op, at) == [op |-> op, at |-> at]

\* Mutant: the scan descends into nested function and class definitions.
RECURSIVE _walk_body_for_calls_into_defs(_, _)
_walk_body_for_calls_into_defs(t, i) ==
    LET ch == iter_child_nodes(t, i)
    IN  Concat([c \in 1..Len(ch) |->
            (IF t[ch[c]].kind = "Call" THEN <<Step("Call", ch[c])>> ELSE <<>>)
            \o _walk_body_for_calls_into_defs(t, ch[c])])

RECURSIVE _walk_body_for_calls(_, _)
_walk_body_for_calls(t, i) ==
    LET ch == iter_child_nodes(t, i)
    IN  Concat([c \in 1..Len(ch) |->
            IF IsDefKind(t[ch[c]].kind) THEN <<>>
            ELSE (IF t[ch[c]].kind = "Call" THEN <<Step("Call", ch[c])>> ELSE <<>>)
                 \o _walk_body_for_calls(t, ch[c])])

RECURSIVE visit(_, _)
RECURSIVE generic_visit(_, _)
generic_visit(t, i) ==
    LET ch == iter_child_nodes(t, i)
    IN  Concat([c \in 1..Len(ch) |-> visit(t, ch[c])])

visit_ClassDef(t, i) ==
    <<Step("ClassDef", i)>> \o generic_visit(t, i) \o <<Step("Pop", i)>>

_visit_function(t, i) ==
    <<Step("FunctionDef", i)>> \o _walk_body_for_calls(t, i)
        \o generic_visit(t, i) \o <<Step("Pop", i)>>

\* Mutant: the visitor handles every call expression it meets (a visit_Call).
visit_with_Call(t, i) ==
    CASE t[i].kind = "Import" -> <<Step("Import", i)>>
      [] t[i].kind = "ImportFrom" -> <<Step("ImportFrom", i)>>
      [] t[i].kind = "ClassDef" -> visit_ClassDef(t, i)
      [] t[i].kind = "FunctionDef" -> _visit_function(t, i)
      [] t[i].kind = "Call" -> <<Step("Call", i)>> \o generic_visit(t, i)
      [] OTHER -> generic_visit(t, i)

visit(t, i) ==
    CASE t[i].kind = "Import" -> <<Step("Import", i)>>
      [] t[i].kind = "ImportFrom" -> <<Step("ImportFrom", i)>>
      [] t[i].kind = "ClassDef" -> visit_ClassDef(t, i)
      [] t[i].kind = "FunctionDef" -> _visit_function(t, i)
      [] OTHER -> generic_visit(t, i)

\* self.visit(tree): the Module has no visit_ method of its own.
Steps(t) == generic_visit(t, 0)

(***************************************************************************)
(* The analyzed project: the sorted list of discovered files               *)
(***************************************************************************)
MaxDirDepth == 1
MaxFiles == 2
MaxWalkNodes == 3
MaxLinkNodes == 3
MaxExtNodes == 5

TargetDir == "pkg"
SubDirs == {"lib", "sub"}
FileNames == {"a.py", "b.py"}

\* The order of path segments under sorted().
SegRank(seg) ==
    CASE seg = "a.py" -> 1 [] seg = "b.py" -> 2 [] seg = "lib" -> 3
      [] seg = "pkg" -> 4 [] seg = "sub" -> 5

RECURSIVE PathLess(_, _)
PathLess(p, q) ==
    IF p = <<>> THEN q # <<>>
    ELSE IF q = <<>> THEN FALSE
    ELSE IF p[1] # q[1] THEN SegRank(p[1]) < SegRank(q[1])
    ELSE PathLess(Tail(p), Tail(q))

SeqsUpTo(S, n) == UNION { [1..m -> S] : m \in 0..n }

\* Paths relative to root = target.parent: the target directory comes first.
RelPaths ==
    { <<TargetDir>> \o d \o <<f>> : d \in SeqsUpTo(SubDirs, MaxDirDepth), f \in FileNames }

\* py_files = sorted(target.rglob("*.py")), or [target] for a single file.
Layouts(n) ==
    { l \in SeqsUpTo(RelPaths, n) :
        /\ l # <<>>
        /\ \A i \in 1..(Len(l) - 1) : PathLess(l[i], l[i + 1]) }

\* The nodes that the next node in document order can be a child of: the
\* Module, the last node and the nodes around the last node.
OpenNodes(t) ==
    { p \in 0..Len(t) : p = 0 \/ p = Len(t) \/ IsUnder(t, Len(t), p) }

\* An import has no child node, and the children of a call are the calls in
\* its arguments.
CanHold(t, p, n) ==
    p > 0 => /\ t[p].kind \notin {"Import", "ImportFrom"}
             /\ t[p].kind = "Call" => n.kind = "Call"

\* Every syntax tree of exactly n nodes over the given syntax nodes.
RECURSIVE Trees(_, _)
Trees(labels, n) ==
    IF n = 0 THEN { <<>> }
    ELSE UNION { { Append(t, At(x[1], x[2])) :
                     x \in { y \in labels \X OpenNodes(t) : CanHold(t, y[2], y[1]) } }
                 : t \in Trees(labels, n - 1) }

Parsed(t) == [ok |-> TRUE, tree |-> t]

\* A file whose text ast.parse rejects.
Malformed == [ok |-> FALSE, tree |-> <<>>]

\* Every project over the layouts whose files are well-formed and whose trees,
\* over the given syntax nodes, hold at most n nodes in total.
RECURSIVE Sources(_, _, _)
Sources(labels, files, n) ==
    IF files = 0 THEN { <<>> }
    ELSE UNION { { <<Parsed(t)>> \o rest : t \in Trees(labels, m),
                                          rest \in Sources(labels, files - 1, n - m) }
                 : m \in 0..n }

Project(layout, srcs) == [i \in 1..Len(layout) |-> [path |-> layout[i], src |-> srcs[i]]]

Family(layouts, labels, n) ==
    UNION { { Project(l, srcs) : srcs \in Sources(labels, Len(l), n) } : l \in layouts }

NameG == Name("g")
AttrXG == Attribute(Name("x"), "g")

\* One file, every construct of the walker.
WalkLabels ==
    { FunctionDef("f"), ClassDef("C", <<>>), Call(NameG), Stmt,
      Import(<< <<"x", "g">>, <<"g">> >>), ImportFrom(<<"x", "g">>), ImportFrom(None) }

\* Files that define and call the same bare names.
LinkLabels == { FunctionDef("f"), FunctionDef("g"), Call(NameG), Call(OtherExpr) }

\* Files whose calls and base classes name the same dotted name.
ExtLabels == { FunctionDef("f"), Call(AttrXG), ClassDef("C", <<AttrXG, OtherExpr>>) }

\* Each file malformed, empty or one definition.
ScaffoldSources == { Malformed, Parsed(<<>>), Parsed(<<At(FunctionDef("f"), 0)>>) }

OneFile == { << <<TargetDir, "a.py">> >> }
TwoFiles == { << <<TargetDir, "a.py">>, <<TargetDir, "b.py">> >> }

Projects ==
    Family(OneFile, WalkLabels, MaxWalkNodes)
    \cup Family(TwoFiles, LinkLabels, MaxLinkNodes)
    \cup Family(OneFile, ExtLabels, MaxLinkNodes)
    \cup UNION { { Project(l, srcs) : srcs \in [1..Len(l) -> ScaffoldSources] }
                 : l \in Layouts(MaxFiles) }

(***************************************************************************)
(* build_graph as a state machine                                          *)
(***************************************************************************)
VARIABLES
    disk,       \* py_files: for each discovered file, its path and its source
    nodes,      \* graph.nodes, in insertion order
    edges,      \* graph.edges
    dirs_seen,  \* build_graph's dirs_seen
    phase,      \* "scaffold" | "analyze" | "walk" | "done"
    fi,         \* index in py_files of the file the current loop is at
    scope,      \* the visitor's _scope stack
    pc          \* the visitor's position in the walk of the current tree

vars == <<disk, nodes, edges, dirs_seen, phase, fi, scope, pc>>

rel_path == disk[fi].path
file_id == FileId(rel_path)
tree == disk[fi].src.tree
steps == Steps(tree)

_current_scope_id == IF scope # <<>> THEN Last(scope) ELSE file_id

_make_id(kind, name) == MakeId(_current_scope_id, kind, name)

\* build_graph starts with an empty graph, whatever the project is.
Start ==
    /\ nodes = <<>>
    /\ edges = <<>>
    /\ dirs_seen = {}
    /\ phase = "scaffold"
    /\ fi = 1
    /\ scope = <<>>
    /\ pc = 0

Init == disk \in Projects /\ Start

\* The same projects, and the larger one-file projects of dotted names.
InitExt ==
    /\ disk \in Projects \cup Family(OneFile, ExtLabels, MaxExtNodes)
    /\ Start

\* Mutant: the parent's has edge is added whether or not the directory was seen.
RECURSIVE AddDirs_unguarded(_, _, _)
AddDirs_unguarded(g, parts, i) ==
    IF i > Len(parts) THEN g
    ELSE LET dir_id == DirId(SubSeq(parts, 1, i))
         IN  AddDirs_unguarded(
                 [nodes |-> add_node(g.nodes, dir_id, "dir", <<parts[i]>>, "1st", 0),
                  seen  |-> g.seen \cup {dir_id},
                  edges |-> IF i > 1
                            THEN add_edge(g.edges, DirId(SubSeq(parts, 1, i - 1)),
                                          dir_id, "has")
                            ELSE g.edges],
                 parts, i + 1)

\* Lines 261-270: the directory nodes of one file, for the prefixes i..len(parts).
RECURSIVE AddDirs(_, _, _)
AddDirs(g, parts, i) ==
    IF i > Len(parts) THEN g
    ELSE LET dir_id == DirId(SubSeq(parts, 1, i))
         IN  IF dir_id \notin g.seen
             THEN AddDirs([nodes |-> add_node(g.nodes, dir_id, "dir", <<parts[i]>>, "1st", 0),
                           seen  |-> g.seen \cup {dir_id},
                           edges |-> IF i > 1
                                     THEN add_edge(g.edges, DirId(SubSeq(parts, 1, i - 1)),
                                                   dir_id, "has")
                                     ELSE g.edges],
                          parts, i + 1)
             ELSE AddDirs(g, parts, i + 1)

\* Lines 258-276: one turn of the loop that adds the directory nodes.
AddDirectoryNodes ==
    /\ phase = "scaffold"
    /\ LET parts == Front(rel_path)
           g == AddDirs([nodes |-> nodes, seen |-> dirs_seen, edges |-> edges], parts, 1)
       IN  /\ nodes' = g.nodes
           /\ dirs_seen' = g.seen
           /\ edges' = IF parts # <<>>
                       THEN add_edge(g.edges, DirId(parts), file_id, "has")
                       ELSE g.edges
    /\ IF fi < Len(disk)
       THEN fi' = fi + 1 /\ phase' = phase
       ELSE fi' = 1 /\ phase' = "analyze"
    /\ UNCHANGED <<disk, scope, pc>>

\* The loop of lines 279-281 moves to the next file, or build_graph returns.
NextFile ==
    IF fi < Len(disk)
    THEN fi' = fi + 1 /\ phase' = "analyze"
    ELSE fi' = fi /\ phase' = "done"

\* analyze, lines 110-113: ast.parse raises SyntaxError and the file is skipped.
AnalyzeSyntaxError ==
    /\ phase = "analyze"
    /\ ~disk[fi].src.ok
    /\ NextFile
    /\ UNCHANGED <<disk, nodes, edges, dirs_seen, scope, pc>>

\* analyze, lines 115-117: the file node is added and pushed as the first scope.
AnalyzeEnter ==
    /\ phase = "analyze"
    /\ disk[fi].src.ok
    /\ nodes' = add_node(nodes, file_id, "file", <<Last(rel_path)>>, "1st", FileLoc(tree))
    /\ scope' = Append(scope, file_id)
    /\ phase' = "walk"
    /\ pc' = 1
    /\ UNCHANGED <<disk, edges, dirs_seen, fi>>

AtStep(op) ==
    /\ phase = "walk"
    /\ pc <= Len(steps)
    /\ steps[pc].op = op

\* visit_Import: each alias adds its module's node and an imports edge.
RECURSIVE ImportAliases(_, _, _)
ImportAliases(g, src, names) ==
    IF names = <<>> THEN g
    ELSE LET mod_id == ExternalId("file", names[1])
         IN  ImportAliases([nodes |-> add_node(g.nodes, mod_id, "file", names[1], "3rd", 0),
                            edges |-> add_edge(g.edges, src, mod_id, "imports")],
                           src, Tail(names))

visit_Import ==
    /\ AtStep("Import")
    /\ LET g == ImportAliases([nodes |-> nodes, edges |-> edges], _current_scope_id,
                              tree[steps[pc].at].names)
       IN  nodes' = g.nodes /\ edges' = g.edges
    /\ pc' = pc + 1
    /\ UNCHANGED <<disk, dirs_seen, phase, fi, scope>>

\* visit_ImportFrom: the module's node and an imports edge, if there is a module.
visit_ImportFrom ==
    /\ AtStep("ImportFrom")
    /\ LET module == tree[steps[pc].at].names
           mod_id == ExternalId("file", module[1])
       IN  IF module = <<>>
           THEN UNCHANGED <<nodes, edges>>
           ELSE /\ nodes' = add_node(nodes, mod_id, "file", module[1], "3rd", 0)
                /\ edges' = add_edge(edges, _current_scope_id, mod_id, "imports")
    /\ pc' = pc + 1
    /\ UNCHANGED <<disk, dirs_seen, phase, fi, scope>>

\* Lines 143-148: the "is" edges of a class to its resolvable bases.
RECURSIVE Inheritance(_, _, _)
Inheritance(g, cls_id, bases) ==
    IF bases = <<>> THEN g
    ELSE LET base_name == _resolve_name(bases[1])
             base_id == ExternalId("class", base_name)
         IN  IF base_name # None
             THEN Inheritance([nodes |-> add_node(g.nodes, base_id, "class", base_name, "3rd", 0),
                               edges |-> add_edge(g.edges, cls_id, base_id, "is")],
                              cls_id, Tail(bases))
             ELSE Inheritance(g, cls_id, Tail(bases))

\* visit_ClassDef up to the push of the class's scope (lines 137-150).
visit_ClassDef_enter ==
    /\ AtStep("ClassDef")
    /\ LET at == steps[pc].at
           cls_id == _make_id("class", tree[at].name)
           g == Inheritance(
                  [nodes |-> add_node(nodes, cls_id, "class", <<tree[at].name>>, "1st",
                                      DefLoc(tree, at)),
                   edges |-> add_edge(edges, _current_scope_id, cls_id, "has")],
                  cls_id, tree[at].bases)
       IN  /\ nodes' = g.nodes
           /\ edges' = g.edges
           /\ scope' = Append(scope, cls_id)
    /\ pc' = pc + 1
    /\ UNCHANGED <<disk, dirs_seen, phase, fi>>

\* _visit_function up to the push of the function's scope (lines 161-169).
_visit_function_enter ==
    /\ AtStep("FunctionDef")
    /\ LET at == steps[pc].at
           func_id == _make_id("function", tree[at].name)
       IN  /\ nodes' = add_node(nodes, func_id, "function", <<tree[at].name>>, "1st",
                                DefLoc(tree, at))
           /\ edges' = add_edge(edges, _current_scope_id, func_id, "has")
           /\ scope' = Append(scope, func_id)
    /\ pc' = pc + 1
    /\ UNCHANGED <<disk, dirs_seen, phase, fi>>

\* _handle_call on one call expression of the scanned body.
_handle_call ==
    /\ AtStep("Call")
    /\ LET called == _resolve_name(tree[steps[pc].at].func)
           r == _resolve_target(nodes, file_id, called)
       IN  IF called = None
           THEN UNCHANGED <<nodes, edges>>
           ELSE /\ nodes' = r.nodes
                /\ edges' = add_edge(edges, _current_scope_id, r.target, "calls")
    /\ pc' = pc + 1
    /\ UNCHANGED <<disk, dirs_seen, phase, fi, scope>>

\* Mutant: the scope is not popped when a definition is left.
scope_pop_missing ==
    /\ AtStep("Pop")
    /\ pc' = pc + 1
    /\ UNCHANGED <<disk, nodes, edges, dirs_seen, phase, fi, scope>>

\* self._scope.pop() at the end of visit_ClassDef and _visit_function.
scope_pop ==
    /\ AtStep("Pop")
    /\ scope' = Front(scope)
    /\ pc' = pc + 1
    /\ UNCHANGED <<disk, nodes, edges, dirs_seen, phase, fi>>

\* analyze, line 121: the walk is over, the file's scope is popped.
AnalyzeLeave ==
    /\ phase = "walk"
    /\ pc > Len(steps)
    /\ scope' = Front(scope)
    /\ pc' = 0
    /\ NextFile
    /\ UNCHANGED <<disk, nodes, edges, dirs_seen>>

Next ==
    \/ AddDirectoryNodes
    \/ AnalyzeSyntaxError
    \/ AnalyzeEnter
    \/ visit_Import
    \/ visit_ImportFrom
    \/ visit_ClassDef_enter
    \/ _visit_function_enter
    \/ _handle_call
    \/ scope_pop
    \/ AnalyzeLeave

Spec == Init /\ [][Next]_vars

SpecExt == InitExt /\ [][Next]_vars

(***************************************************************************)
(* Lexical structure of a tree, read off the parent links alone            *)
(***************************************************************************)
TreeOf(j) == disk[j].src.tree
FileIdOf(j) == FileId(disk[j].path)

\* The innermost class or function definition that encloses node i, or 0.
RECURSIVE EnclosingDef(_, _)
EnclosingDef(t, i) ==
    LET p == t[i].parent
    IN  IF p = 0 THEN 0
        ELSE IF IsDefKind(t[p].kind) THEN p
        ELSE EnclosingDef(t, p)

KindWord(kind) == IF kind = "ClassDef" THEN "class" ELSE "function"

\* The ids of the file and of the definitions around definition i, outermost
\* first, ending with the id of i itself.
RECURSIVE LexStack(_, _, _)
LexStack(fid, t, i) ==
    LET outer == IF EnclosingDef(t, i) = 0 THEN <<fid>>
                 ELSE LexStack(fid, t, EnclosingDef(t, i))
    IN  Append(outer, Last(outer) \o << [k |-> KindWord(t[i].kind), n |-> <<t[i].name>>] >>)

LexId(fid, t, i) == Last(LexStack(fid, t, i))

\* The ids around node i, itself excluded.
LexStackAround(fid, t, i) ==
    IF EnclosingDef(t, i) = 0 THEN <<fid>> ELSE LexStack(fid, t, EnclosingDef(t, i))

LexScopeId(fid, t, i) == Last(LexStackAround(fid, t, i))

\* The number of steps of file j's walk that have been taken.
StepsTaken(j) ==
    IF ~disk[j].src.ok \/ phase = "scaffold" THEN 0
    ELSE IF j < fi \/ phase = "done" THEN Len(Steps(TreeOf(j)))
    ELSE IF j = fi /\ phase = "walk" THEN pc - 1
    ELSE 0

\* File j was parsed and its walk has taken its last step.
Walked(j) ==
    /\ disk[j].src.ok
    /\ phase # "scaffold"
    /\ \/ j < fi
       \/ phase = "done"
       \/ j = fi /\ phase = "walk" /\ pc > Len(steps)

Count(sq, P(_)) == Len(SelectSeq(sq, P))

Files == 1..Len(disk)

(***************************************************************************)
(* C9  Scope stack mirrors lexical nesting.  During a file's walk the      *)
(* scope stack holds the file's id followed by the ids of the definitions  *)
(* that lexically enclose the walker's position, so that when a class or   *)
(* function definition is visited the top of the stack is the id of its    *)
(* innermost enclosing class, function or file; every definition visited   *)
(* has the id top + "::" + kind + ":" + name, a node of that id and a has  *)
(* edge from the enclosing scope; the stack is back to its content when a  *)
(* definition is left, and it is empty outside a file's walk.              *)
(***************************************************************************)
ExpectedScope ==
    IF phase # "walk" THEN <<>>
    ELSE IF pc > Len(steps) THEN <<file_id>>
    ELSE IF steps[pc].op = "Pop" THEN LexStack(file_id, tree, steps[pc].at)
    ELSE LexStackAround(file_id, tree, steps[pc].at)

DefEntered(j, k) ==
    /\ k <= StepsTaken(j)
    /\ Steps(TreeOf(j))[k].op \in {"ClassDef", "FunctionDef"}

ScopeMirrorsNesting ==
    /\ scope = ExpectedScope
    /\ \A j \in Files : \A k \in 1..Len(Steps(TreeOf(j))) :
          DefEntered(j, k) =>
              LET at == Steps(TreeOf(j))[k].at
                  id == LexId(FileIdOf(j), TreeOf(j), at)
              IN  /\ id \in NodeIds(nodes)
                  /\ Count(edges, LAMBDA e : e = Edge(LexScopeId(FileIdOf(j), TreeOf(j), at),
                                                       id, "has")) >= 1
                  /\ (j = fi /\ phase = "walk" /\ k = pc - 1) => Last(scope) = id

\* A function nested in a class nested in a function has just been entered.
ScopeWitness ==
    /\ phase = "walk"
    /\ Len(scope) = 4
    /\ pc > 1
    /\ steps[pc - 1].op = "FunctionDef"
    /\ \E i \in 1..Len(tree) : tree[i].kind = "ClassDef" /\ scope[3] = LexId(file_id, tree, i)

(***************************************************************************)
(* C8  Call scan.  Once a file is walked, for every function id of the     *)
(* file the number of calls edges whose src is that id equals the number   *)
(* of call expressions with a resolvable callee that lie in the own        *)
(* statements of the functions of that id: calls nested in the arguments   *)
(* of a call count, calls inside a nested function or class definition do  *)
(* not (they count for the nested definition only), and equal edges are    *)
(* kept, one per call expression.                                          *)
(***************************************************************************)
Resolvable(t, c) == t[c].kind = "Call" /\ _resolve_name(t[c].func) # None

\* The resolvable call expressions in the own statements of the functions of
\* tree t whose id is id.
OwnCalls(fid, t, id) ==
    { c \in 1..Len(t) :
        /\ Resolvable(t, c)
        /\ EnclosingDef(t, c) # 0
        /\ t[EnclosingDef(t, c)].kind = "FunctionDef"
        /\ LexId(fid, t, EnclosingDef(t, c)) = id }

FunctionIds(fid, t) ==
    { LexId(fid, t, i) : i \in { k \in 1..Len(t) : t[k].kind = "FunctionDef" } }

CallScan ==
    \A j \in Files : Walked(j) =>
        \A id \in FunctionIds(FileIdOf(j), TreeOf(j)) :
            Count(edges, LAMBDA e : e.kind = "calls" /\ e.src = id)
                = Cardinality(OwnCalls(FileIdOf(j), TreeOf(j), id))

\* A walked function whose body is a call with a call in its arguments, both to
\* the same target: two equal calls edges.
CallScanWitness ==
    \E j \in Files :
        /\ Walked(j)
        /\ \E c \in 1..Len(TreeOf(j)) :
              /\ Resolvable(TreeOf(j), c)
              /\ TreeOf(j)[c].parent # 0
              /\ Resolvable(TreeOf(j), TreeOf(j)[c].parent)
              /\ Count(edges, LAMBDA e :
                     /\ e.kind = "calls"
                     /\ e.src = LexScopeId(FileIdOf(j), TreeOf(j), c)
                     /\ e.dst = ExternalId("function", <<"g">>)) = 2

(***************************************************************************)
(* C10  The src of every calls edge is an own-origin node of kind          *)
(* function; a walked file has exactly as many calls edges as it has       *)
(* resolvable call expressions in function bodies, so call expressions at  *)
(* module level or directly in a class body produce no calls edge; and     *)
(* every placeholder node is the dst of a calls edge.                      *)
(***************************************************************************)
IsPlaceholder(n) == Len(n.id) = 1 /\ n.id[1].k = "function"

CallsFromFunctionsOnly ==
    /\ \A k \in 1..Len(edges) : edges[k].kind = "calls" =>
          \E m \in 1..Len(nodes) :
              /\ nodes[m].id = edges[k].src
              /\ nodes[m].kind = "function"
              /\ nodes[m].party = "1st"
    /\ \A j \in Files : Walked(j) =>
          Count(edges, LAMBDA e : e.kind = "calls" /\ StartsWith(e.src, FileIdOf(j)))
              = Cardinality({ c \in 1..Len(TreeOf(j)) :
                                /\ Resolvable(TreeOf(j), c)
                                /\ EnclosingDef(TreeOf(j), c) # 0
                                /\ TreeOf(j)[EnclosingDef(TreeOf(j), c)].kind = "FunctionDef" })
    /\ \A m \in 1..Len(nodes) : IsPlaceholder(nodes[m]) =>
          \E k \in 1..Len(edges) : edges[k].kind = "calls" /\ edges[k].dst = nodes[m].id

\* A walked file with a resolvable call at module level and one directly in a
\* class body.
ModuleLevelCallWitness ==
    \E j \in Files :
        /\ Walked(j)
        /\ \E c \in 1..Len(TreeOf(j)) :
              Resolvable(TreeOf(j), c) /\ TreeOf(j)[c].parent = 0
        /\ \E c \in 1..Len(TreeOf(j)) :
              /\ Resolvable(TreeOf(j), c)
              /\ TreeOf(j)[c].parent # 0
              /\ TreeOf(j)[TreeOf(j)[c].parent].kind = "ClassDef"

(***************************************************************************)
(* C3  First writer wins.  The store never holds two nodes of one id; no   *)
(* step changes or removes a node that is in the store; and the node of a  *)
(* class or function definition carries the kind, label, origin and size   *)
(* of the first definition of that id that the walk entered, whatever      *)
(* later definitions of the same kind and name in the same scope say.      *)
(***************************************************************************)
UniqueIds ==
    \A a, b \in 1..Len(nodes) : nodes[a].id = nodes[b].id => a = b

\* The first step of file j's walk that enters a definition of the id of the
\* definition entered at step k.
FirstEntry(j, k) ==
    LET st == Steps(TreeOf(j))
        id(m) == LexId(FileIdOf(j), TreeOf(j), st[m].at)
        same == { m \in 1..k : st[m].op \in {"ClassDef", "FunctionDef"} /\ id(m) = id(k) }
    IN  CHOOSE m \in same : \A o \in same : m <= o

FirstDefinitionKept ==
    \A j \in Files : \A k \in 1..Len(Steps(TreeOf(j))) :
        DefEntered(j, k) =>
            LET t == TreeOf(j)
                first == Steps(t)[FirstEntry(j, k)].at
            IN  \E m \in 1..Len(nodes) :
                    nodes[m] = Node(LexId(FileIdOf(j), t, Steps(t)[k].at),
                                    KindWord(t[first].kind), <<t[first].name>>, "1st",
                                    DefLoc(t, first))

NodesKept ==
    \A i \in 1..Len(nodes) : i <= Len(nodes') /\ nodes'[i] = nodes[i]

FirstWriterWins ==
    /\ [](UniqueIds /\ FirstDefinitionKept)
    /\ [][NodesKept]_vars

\* Two definitions of one id and of different sizes have both been entered.
SecondWriterWitness ==
    \E j \in Files : \E k1, k2 \in 1..Len(Steps(TreeOf(j))) :
        /\ k1 < k2
        /\ DefEntered(j, k2)
        /\ DefEntered(j, k1)
        /\ LET t == TreeOf(j)
               a == Steps(t)[k1].at
               b == Steps(t)[k2].at
           IN  /\ LexId(FileIdOf(j), t, a) = LexId(FileIdOf(j), t, b)
               /\ DefLoc(t, a) # DefLoc(t, b)

(***************************************************************************)
(* C6  Directory scaffolding.  Once the scaffolding loop has passed a file *)
(* d1/.../dn/name, a dir node exists for every prefix d1, d1/d2, ...; the  *)
(* top-level directory has no incoming edge; every directory below it has  *)
(* exactly one incoming edge, a has edge from its immediate parent         *)
(* directory, however many files lie under it; and there is exactly one    *)
(* has edge from dir:d1/.../dn to the file's id.                           *)
(***************************************************************************)
Scaffolded(j) == phase # "scaffold" \/ j < fi

DirectoryScaffolding ==
    \A j \in Files : Scaffolded(j) =>
        LET parts == Front(disk[j].path)
            prefix(i) == SubSeq(parts, 1, i)
        IN  /\ \A i \in 1..Len(parts) :
                  \E m \in 1..Len(nodes) :
                      /\ nodes[m].id = DirId(prefix(i))
                      /\ nodes[m].kind = "dir"
                      /\ nodes[m].label = <<parts[i]>>
            /\ Count(edges, LAMBDA e : e.dst = DirId(prefix(1))) = 0
            /\ \A i \in 2..Len(parts) :
                  /\ Count(edges, LAMBDA e : e.dst = DirId(prefix(i))) = 1
                  /\ Count(edges, LAMBDA e : e = Edge(DirId(prefix(i - 1)), DirId(prefix(i)),
                                                      "has")) = 1
            /\ Count(edges, LAMBDA e : e.dst = FileIdOf(j)) = 1
            /\ Count(edges, LAMBDA e : e = Edge(DirId(parts), FileIdOf(j), "has")) = 1

\* Two files of one directory below the top level have been scaffolded.
SharedDirectoryWitness ==
    \E j1, j2 \in Files :
        /\ j1 # j2
        /\ phase # "scaffold"
        /\ Len(disk[j1].path) = 3
        /\ Front(disk[j1].path) = Front(disk[j2].path)

(***************************************************************************)
(* C2  Skip on parse failure.  When build_graph returns, no node and no    *)
(* edge mentions a file that failed to parse, neither as src nor as dst.   *)
(***************************************************************************)
Mentions(id, j) == StartsWith(id, FileIdOf(j))

SkippedFileLeavesNoTrace ==
    phase = "done" =>
        \A j \in Files : ~disk[j].src.ok =>
            /\ \A m \in 1..Len(nodes) : ~Mentions(nodes[m].id, j)
            /\ \A k \in 1..Len(edges) :
                  ~Mentions(edges[k].src, j) /\ ~Mentions(edges[k].dst, j)

(***************************************************************************)
(* C4  Endpoint discipline.  When build_graph returns, the src and the dst *)
(* of every edge are ids of nodes of the store.                            *)
(***************************************************************************)
EndpointsInStore ==
    phase = "done" =>
        \A k \in 1..Len(edges) :
            edges[k].src \in NodeIds(nodes) /\ edges[k].dst \in NodeIds(nodes)

(***************************************************************************)
(* Call sites: the k-th calls edge whose src lies in file j comes from the *)
(* k-th resolvable call expression that the walk of file j has handled.    *)
(***************************************************************************)
CallsHandled(j) ==
    SelectSeq(SubSeq(Steps(TreeOf(j)), 1, StepsTaken(j)),
              LAMBDA st : st.op = "Call" /\ Resolvable(TreeOf(j), st.at))

CallEdges(j) ==
    SelectSeq(edges, LAMBDA e : e.kind = "calls" /\ StartsWith(e.src, FileIdOf(j)))

CallSites ==
    { s \in [file : Files, k : 1..Len(edges)] : s.k <= Len(CallsHandled(s.file)) }

Callee(s) == _resolve_name(TreeOf(s.file)[CallsHandled(s.file)[s.k].at].func)

Target(s) == CallEdges(s.file)[s.k].dst

\* Some file of the project defines a class or function of that name.
Defines(j, name) ==
    \E i \in 1..Len(TreeOf(j)) : IsDefKind(TreeOf(j)[i].kind) /\ TreeOf(j)[i].name = name

(***************************************************************************)
(* C1  Resolution of a bare callee name.  Right after a call to a bare     *)
(* name in a function of file F is handled: if a class or function node    *)
(* of that label is nested under F's file id, the calls edge goes to a     *)
(* node nested under F's file id, even when a node of that label from      *)
(* another file was inserted earlier; otherwise it goes to the first node  *)
(* of that label in insertion order (the synthesized external node when    *)
(* there was none).                                                        *)
(***************************************************************************)
JustCalled ==
    /\ phase = "walk"
    /\ pc > 1
    /\ steps[pc - 1].op = "Call"
    /\ Resolvable(tree, steps[pc - 1].at)

BareCalleePrefersSameFile ==
    (JustCalled /\ Len(_resolve_name(tree[steps[pc - 1].at].func)) = 1) =>
        LET called == _resolve_name(tree[steps[pc - 1].at].func)
            labelled == Matches(nodes, LAMBDA n : n.label = called /\ IsDef(n))
            same == Matches(nodes, LAMBDA n : /\ n.label = called /\ IsDef(n)
                                              /\ StartsWith(n.id, file_id))
            dst == edges[Len(edges)].dst
        IN  /\ edges[Len(edges)].kind = "calls"
            /\ IF same # <<>> THEN StartsWith(dst, file_id)
               ELSE labelled # <<>> /\ dst = nodes[labelled[1]].id

(***************************************************************************)
(* C7  Convergence of external references.  Any two call sites handled so  *)
(* far, in any files, whose callee is the same dotted name, no class or    *)
(* function of that name being defined in the project, have the same       *)
(* target node.                                                            *)
(***************************************************************************)
ExternalReferencesConverge ==
    \A s1, s2 \in CallSites :
        (/\ Callee(s1) = Callee(s2)
         /\ \A j \in Files : ~Defines(j, Last(Callee(s1))))
        => Target(s1) = Target(s2)

(***************************************************************************)
(* C5  Order dependence of call linking.  In a two-file project where file *)
(* X defines a top-level function f that calls the bare name g, and only   *)
(* g, and does not define or inherit from g, and file Y defines g as a     *)
(* top-level function only and calls nothing: once X is walked, every      *)
(* calls edge from f's node goes to Y's own-origin node of g if Y was      *)
(* walked before X, and to the external placeholder function:g if X was    *)
(* walked first; in that case Y's g still gets its own node once Y is      *)
(* walked, and the edge keeps pointing at the placeholder.                 *)
(***************************************************************************)
TopLevelFunction(j, name) ==
    \E i \in 1..Len(TreeOf(j)) :
        /\ TreeOf(j)[i].kind = "FunctionDef"
        /\ TreeOf(j)[i].name = name
        /\ TreeOf(j)[i].parent = 0

DefinesAndCalls(X, Y) ==
    /\ Len(disk) = 2
    /\ X # Y
    /\ TopLevelFunction(X, "f")
    /\ LET own == OwnCalls(FileIdOf(X), TreeOf(X), MakeId(FileIdOf(X), "function", "f"))
       IN  /\ own # {}
           /\ \A c \in own : _resolve_name(TreeOf(X)[c].func) = <<"g">>
    /\ ~Defines(X, "g")
    /\ \A i \in 1..Len(TreeOf(X)) : TreeOf(X)[i].bases = <<>>
    /\ TopLevelFunction(Y, "g")
    /\ \A i \in 1..Len(TreeOf(Y)) :
          /\ TreeOf(Y)[i].kind = "FunctionDef"
          /\ TreeOf(Y)[i].name = "g" => TreeOf(Y)[i].parent = 0

OrderDependentLinking ==
    \A X, Y \in Files : (DefinesAndCalls(X, Y) /\ Walked(X)) =>
        LET f == MakeId(FileIdOf(X), "function", "f")
            g == MakeId(FileIdOf(Y), "function", "g")
            placeholder == ExternalId("function", <<"g">>)
            calls == SelectSeq(edges, LAMBDA e : e.kind = "calls" /\ e.src = f)
        IN  /\ calls # <<>>
            /\ \A k \in 1..Len(calls) :
                  /\ calls[k].dst = g <=> Y < X
                  /\ calls[k].dst = placeholder <=> X < Y
            /\ Y < X => /\ \E m \in 1..Len(nodes) :
                                /\ nodes[m].id = g
                                /\ nodes[m].kind = "function"
                                /\ nodes[m].party = "1st"
                        /\ placeholder \notin NodeIds(nodes)
            /\ X < Y => /\ Node(placeholder, "function", <<"g">>, "3rd", 0)
                             \in { nodes[m] : m \in 1..Len(nodes) }
                        /\ Walked(Y) =>
                              \E m \in 1..Len(nodes) :
                                  /\ nodes[m].id = g
                                  /\ nodes[m].party = "1st"

\* The caller's file was walked first, the definer's file has been walked too.
PlaceholderBeforeDefinitionWitness ==
    /\ phase = "done"
    /\ DefinesAndCalls(1, 2)
    /\ \E k \in 1..Len(edges) :
          edges[k] = Edge(MakeId(FileIdOf(1), "function", "f"),
                          ExternalId("function", <<"g">>), "calls")
    /\ MakeId(FileIdOf(2), "function", "g") \in NodeIds(nodes)

====
